---- MODULE Spec2Model ----
(***************************************************************************)
(* Model of fetch-daily-mood.ts: the daily mood pipeline                   *)
(*   main -> getAccessToken -> getRecentlyPlayed ->                        *)
(*   getSoundStatAudioFeatures -> calculateAggregateMood -> mapToElement   *)
(*   -> writeFile.                                                         *)
(*                                                                         *)
(* Numbers are exact rationals: a metric value n stands for n/100, an      *)
(* average is the pair sum/count.  IEEE-754 rounding of the sums is not    *)
(* modelled.  JavaScript null/undefined is the empty tuple None, a present *)
(* value x is the one-element tuple Some(x).  Strings that the code        *)
(* inspects (the environment values) are sequences of characters.          *)
(***************************************************************************)
EXTENDS Integers, Sequences, FiniteSets, TLC

VARIABLES
    env,            \* process.env: the four configured values
    pc,             \* where the single thread of control is suspended
    accessToken,    \* SpotifyMoodAnalyzer.accessToken
    requests,       \* every fetch() issued so far, in order
    responses,      \* the settled outcome of each completed fetch(), in order
    inflight,       \* indexes into requests of fetches not yet settled
    tracks,         \* analyzeDailyMood: tracks
    uniqueTracks,   \* getSoundStatAudioFeatures: uniqueTracks
    i,              \* getSoundStatAudioFeatures: loop index (1-based here)
    featuresMap,    \* getSoundStatAudioFeatures: featuresMap
    mood,           \* analyzeDailyMood: mood (None = null)
    element,        \* analyzeDailyMood: element / main: elementData
    file,           \* contents of current_mood.json (None = not written)
    exitCode,       \* exit status of the process (None while running)
    escaped         \* the error main().catch(console.error) received, if any

vars == <<env, pc, accessToken, requests, responses, inflight, tracks,
          uniqueTracks, i, featuresMap, mood, element, file, exitCode, escaped>>

----------------------------------------------------------------------------
(* Bounds of the model *)

MaxTracks == 3
NumTrackIds == 2

TrackIds == 1..NumTrackIds

----------------------------------------------------------------------------
(* JavaScript values *)

None == <<>>
Some(x) == <<x>>

\* String.prototype.includes on character sequences
Includes(s, sub) ==
    \E k \in 0..(Len(s) - Len(sub)) : SubSeq(s, k + 1, k + Len(sub)) = sub

\* !value for a string | undefined
Falsy(v) == IF v = None THEN TRUE ELSE v[1] = <<>>

YOUR_ == <<"Y", "O", "U", "R", "_">>

\* insertion-ordered Map: keys in order of first insertion, val the last value set
EmptyMap == [keys |-> <<>>, val |-> <<>>]

MapHas(m, k) == \E j \in 1..Len(m.keys) : m.keys[j] = k

MapIndex(m, k) == CHOOSE j \in 1..Len(m.keys) : m.keys[j] = k

MapSet(m, k, v) ==
    IF MapHas(m, k)
    THEN [m EXCEPT !.val[MapIndex(m, k)] = v]
    ELSE [keys |-> Append(m.keys, k), val |-> Append(m.val, v)]

MapGet(m, k) == IF MapHas(m, k) THEN Some(m.val[MapIndex(m, k)]) ELSE None

MapSize(m) == Len(m.keys)

MapValues(m) == m.val

RECURSIVE MapFromEntries(_)
MapFromEntries(entries) ==
    IF entries = <<>> THEN EmptyMap
    ELSE LET n == Len(entries)
             last == entries[n]
         IN MapSet(MapFromEntries(SubSeq(entries, 1, n - 1)), last[1], last[2])

----------------------------------------------------------------------------
(* Numbers *)

NaN == [nan |-> TRUE, num |-> 0, den |-> 1]
Rat(n, d) == [nan |-> FALSE, num |-> n, den |-> d]

\* x > t/100, x < t/100, ... ; every comparison with NaN is false
GT(x, t) == ~x.nan /\ x.num * 100 > t * x.den
LT(x, t) == ~x.nan /\ x.num * 100 < t * x.den
GE(x, t) == ~x.nan /\ x.num * 100 >= t * x.den
LE(x, t) == ~x.nan /\ x.num * 100 <= t * x.den

RECURSIVE SumSeq(_)
SumSeq(arr) ==
    IF arr = <<>> THEN 0 ELSE arr[1][1] + SumSeq(Tail(arr))

\* arr.reduce((a, b) => a + b, 0) / arr.length over number | undefined
average(arr) ==
    IF Len(arr) = 0 THEN NaN
    ELSE IF \E k \in 1..Len(arr) : arr[k] = None THEN NaN
    ELSE Rat(SumSeq(arr), 100 * Len(arr))

----------------------------------------------------------------------------
(* calculateAggregateMood *)

\* the sequence without the later occurrences of an element already seen
RECURSIVE Dedup(_)
Dedup(seq) ==
    IF seq = <<>> THEN <<>>
    ELSE LET init == Dedup(SubSeq(seq, 1, Len(seq) - 1))
             x == seq[Len(seq)]
         IN IF \E k \in 1..Len(init) : init[k] = x THEN init ELSE Append(init, x)

\* calculateAggregateMood without the check that some track matched
calculateAggregateMoodNoGuard(trks, audioFeatures) ==
    IF Len(trks) = 0 \/ MapSize(audioFeatures) = 0 THEN None
    ELSE LET matched == SelectSeq(trks, LAMBDA t : MapGet(audioFeatures, t.id) # None)
             feat(k) == MapGet(audioFeatures, matched[k].id)[1]
             valences == [k \in 1..Len(matched) |-> feat(k).valence]
             energies == [k \in 1..Len(matched) |-> feat(k).energy]
             acousticnesses == [k \in 1..Len(matched) |-> feat(k).acousticness]
         IN Some([avgValence |-> average(valences),
                  avgEnergy |-> average(energies),
                  avgAcousticness |-> average(acousticnesses),
                  trackCount |-> Len(trks),
                  analyzedCount |-> Len(valences)])

\* calculateAggregateMood collecting each track identifier once
calculateAggregateMoodDistinct(trks, audioFeatures) ==
    IF Len(trks) = 0 \/ MapSize(audioFeatures) = 0 THEN None
    ELSE LET ids == Dedup([k \in 1..Len(trks) |-> trks[k].id])
             matched == SelectSeq(ids, LAMBDA id : MapGet(audioFeatures, id) # None)
             feat(k) == MapGet(audioFeatures, matched[k])[1]
             valences == [k \in 1..Len(matched) |-> feat(k).valence]
             energies == [k \in 1..Len(matched) |-> feat(k).energy]
             acousticnesses == [k \in 1..Len(matched) |-> feat(k).acousticness]
         IN IF Len(valences) = 0 THEN None
            ELSE Some([avgValence |-> average(valences),
                       avgEnergy |-> average(energies),
                       avgAcousticness |-> average(acousticnesses),
                       trackCount |-> Len(trks),
                       analyzedCount |-> Len(valences)])

calculateAggregateMood(trks, audioFeatures) ==
    IF Len(trks) = 0 \/ MapSize(audioFeatures) = 0 THEN None
    ELSE LET matched == SelectSeq(trks, LAMBDA t : MapGet(audioFeatures, t.id) # None)
             feat(k) == MapGet(audioFeatures, matched[k].id)[1]
             valences == [k \in 1..Len(matched) |-> feat(k).valence]
             energies == [k \in 1..Len(matched) |-> feat(k).energy]
             acousticnesses == [k \in 1..Len(matched) |-> feat(k).acousticness]
         IN IF Len(valences) = 0 THEN None
            ELSE Some([avgValence |-> average(valences),
                       avgEnergy |-> average(energies),
                       avgAcousticness |-> average(acousticnesses),
                       trackCount |-> Len(trks),
                       analyzedCount |-> Len(valences)])

----------------------------------------------------------------------------
(* mapToElement: the date field (time of the call) is not modelled *)

ElementOf(name, gradient, description, m, trks) ==
    [name |-> name, gradient |-> gradient, description |-> description,
     mood |-> m, tracks |-> trks]

\* mapToElement with the AETHER test moved ahead of the WATER and AIR tests
mapToElementAetherFirst(m, trks) ==
    IF GT(m.avgEnergy, 70) /\ GT(m.avgValence, 60)
    THEN ElementOf("FIRE",
                   "linear-gradient(135deg, #ff6b00 0%, #ff0000 50%, #ffaa00 100%)",
                   "Euphoric & Intense", m, trks)
    ELSE IF GT(m.avgAcousticness, 50) /\ LT(m.avgEnergy, 50)
    THEN ElementOf("AETHER",
                   "linear-gradient(135deg, #0a0014 0%, #1a0033 50%, #2d1b47 100%)",
                   "Ethereal & Transcendent", m, trks)
    ELSE IF LT(m.avgEnergy, 50) /\ LT(m.avgValence, 60)
    THEN ElementOf("WATER",
                   "linear-gradient(135deg, #000814 0%, #003566 50%, #001d3d 100%)",
                   "Flowing & Emotional", m, trks)
    ELSE IF GT(m.avgValence, 60) /\ GE(m.avgEnergy, 40) /\ LE(m.avgEnergy, 70)
    THEN ElementOf("AIR",
                   "linear-gradient(135deg, #e0f7ff 0%, #87ceeb 50%, #b8d4e6 100%)",
                   "Light & Uplifting", m, trks)
    ELSE ElementOf("EARTH",
                   "linear-gradient(135deg, #0d1b0d 0%, #1a3319 50%, #0f2511 100%)",
                   "Grounded & Melancholic", m, trks)

\* mapToElement with the FIRE energy cutoff at 0.8 instead of 0.7
mapToElementFireCutoff(m, trks) ==
    IF GT(m.avgEnergy, 80) /\ GT(m.avgValence, 60)
    THEN ElementOf("FIRE",
                   "linear-gradient(135deg, #ff6b00 0%, #ff0000 50%, #ffaa00 100%)",
                   "Euphoric & Intense", m, trks)
    ELSE IF LT(m.avgEnergy, 50) /\ LT(m.avgValence, 60)
    THEN ElementOf("WATER",
                   "linear-gradient(135deg, #000814 0%, #003566 50%, #001d3d 100%)",
                   "Flowing & Emotional", m, trks)
    ELSE IF GT(m.avgValence, 60) /\ GE(m.avgEnergy, 40) /\ LE(m.avgEnergy, 70)
    THEN ElementOf("AIR",
                   "linear-gradient(135deg, #e0f7ff 0%, #87ceeb 50%, #b8d4e6 100%)",
                   "Light & Uplifting", m, trks)
    ELSE IF GT(m.avgAcousticness, 50) /\ LT(m.avgEnergy, 50)
    THEN ElementOf("AETHER",
                   "linear-gradient(135deg, #0a0014 0%, #1a0033 50%, #2d1b47 100%)",
                   "Ethereal & Transcendent", m, trks)
    ELSE ElementOf("EARTH",
                   "linear-gradient(135deg, #0d1b0d 0%, #1a3319 50%, #0f2511 100%)",
                   "Grounded & Melancholic", m, trks)

mapToElement(m, trks) ==
    IF GT(m.avgEnergy, 70) /\ GT(m.avgValence, 60)
    THEN ElementOf("FIRE",
                   "linear-gradient(135deg, #ff6b00 0%, #ff0000 50%, #ffaa00 100%)",
                   "Euphoric & Intense", m, trks)
    ELSE IF LT(m.avgEnergy, 50) /\ LT(m.avgValence, 60)
    THEN ElementOf("WATER",
                   "linear-gradient(135deg, #000814 0%, #003566 50%, #001d3d 100%)",
                   "Flowing & Emotional", m, trks)
    ELSE IF GT(m.avgValence, 60) /\ GE(m.avgEnergy, 40) /\ LE(m.avgEnergy, 70)
    THEN ElementOf("AIR",
                   "linear-gradient(135deg, #e0f7ff 0%, #87ceeb 50%, #b8d4e6 100%)",
                   "Light & Uplifting", m, trks)
    ELSE IF GT(m.avgAcousticness, 50) /\ LT(m.avgEnergy, 50)
    THEN ElementOf("AETHER",
                   "linear-gradient(135deg, #0a0014 0%, #1a0033 50%, #2d1b47 100%)",
                   "Ethereal & Transcendent", m, trks)
    ELSE ElementOf("EARTH",
                   "linear-gradient(135deg, #0d1b0d 0%, #1a3319 50%, #0f2511 100%)",
                   "Grounded & Melancholic", m, trks)

----------------------------------------------------------------------------
(* The network: requests and the outcomes the collaborators can produce *)

Request(endpoint, id) == [endpoint |-> endpoint, id |-> id]

\* fetch() rejects (transport error)
Rejected == [settled |-> "rejected", ok |-> FALSE, status |-> 0, json |-> None]
\* fetch() resolves; json = None: response.json() throws
Resolved(status, json) ==
    [settled |-> "resolved", ok |-> (status >= 200 /\ status <= 299),
     status |-> status, json |-> json]

TokenResponses ==
    {Rejected, Resolved(400, None), Resolved(200, None),
     Resolved(200, Some([access_token |-> None])),
     Resolved(200, Some([access_token |-> Some("BQD")]))}

\* items of the recently-played payload for a sequence of track ids
Items(ids) ==
    [k \in 1..Len(ids) |-> [track |-> [id |-> ids[k]], played_at |-> k]]

IdSeqs == UNION {[1..n -> TrackIds] : n \in 0..MaxTracks}

PlayedResponses ==
    {Rejected, Resolved(401, None), Resolved(200, None),
     Resolved(200, Some([items |-> None]))}
    \cup {Resolved(200, Some([items |-> Some(Items(ids))])) : ids \in IdSeqs}

Features(v, e, a, d, t) ==
    [valence |-> v, energy |-> e, acousticness |-> a, danceability |-> d, tempo |-> t]

WellFormedFeatures ==
    {Features(Some(80), Some(80), Some(20), Some(50), Some(120)),
     Features(Some(20), Some(30), Some(20), Some(50), Some(120)),
     Features(Some(90), Some(30), Some(80), Some(50), Some(120))}

MalformedFeatures ==
    {Features(None, None, None, None, None),
     Features(None, Some(30), Some(20), Some(50), Some(120)),
     Features(Some(80), Some(80), Some(20), Some(50), None)}

FeaturePayloads == WellFormedFeatures \cup MalformedFeatures

AnalysisResponses ==
    {Rejected, Resolved(404, None), Resolved(200, None),
     Resolved(200, Some([features |-> None]))}
    \cup {Resolved(200, Some([features |-> Some(f)])) : f \in FeaturePayloads}

----------------------------------------------------------------------------
(* The methods of SpotifyMoodAnalyzer, as functions of the settled fetch.  *)
(* A result carries what the method returns (or stores) and, in thrown,    *)
(* the error that leaves the method (None: it returns normally).           *)

\* getAccessToken: every failure is logged and rethrown
getAccessToken(r) ==
    IF r.settled = "rejected" THEN [accessToken |-> None, thrown |-> Some("fetch failed")]
    ELSE IF ~r.ok THEN [accessToken |-> None, thrown |-> Some("Failed to get access token")]
    ELSE IF r.json = None THEN [accessToken |-> None, thrown |-> Some("invalid json")]
    ELSE [accessToken |-> r.json[1].access_token, thrown |-> None]

\* data.items.map(item => ({id, name, artists, playedAt}))
ToTracks(items) ==
    [k \in 1..Len(items) |-> [id |-> items[k].track.id, playedAt |-> items[k].played_at]]

\* getRecentlyPlayed with the status check outside its try block
getRecentlyPlayedUncaught(r) ==
    IF r.settled = "rejected" THEN [tracks |-> <<>>, thrown |-> None]
    ELSE IF ~r.ok THEN [tracks |-> <<>>, thrown |-> Some("Failed to fetch recently played")]
    ELSE IF r.json = None THEN [tracks |-> <<>>, thrown |-> None]
    ELSE IF r.json[1].items = None THEN [tracks |-> <<>>, thrown |-> None]
    ELSE [tracks |-> ToTracks(r.json[1].items[1]), thrown |-> None]

\* getRecentlyPlayed after its guard: every failure inside the try returns []
getRecentlyPlayed(r) ==
    IF r.settled = "rejected" THEN [tracks |-> <<>>, thrown |-> None]
    ELSE IF ~r.ok THEN [tracks |-> <<>>, thrown |-> None]
    ELSE IF r.json = None THEN [tracks |-> <<>>, thrown |-> None]
    ELSE IF r.json[1].items = None THEN [tracks |-> <<>>, thrown |-> None]
    ELSE [tracks |-> ToTracks(r.json[1].items[1]), thrown |-> None]

\* the loop run over tracks itself, without the deduplication
UniqueTracksNoDedup(trks) == trks

\* Array.from(new Map(tracks.map(track => [track.id, track])).values())
UniqueTracks(trks) ==
    MapValues(MapFromEntries([k \in 1..Len(trks) |-> <<trks[k].id, trks[k]>>]))

\* featuresMap.set(track.id, {id, valence, energy, acousticness, danceability, tempo})
AudioFeaturesOf(id, f) ==
    [id |-> id, valence |-> f.valence, energy |-> f.energy,
     acousticness |-> f.acousticness, danceability |-> f.danceability,
     tempo |-> f.tempo]

\* the loop body with response.json() outside its try block
LoopBodyUncaught(fmap, track, r) ==
    IF r.settled = "rejected" THEN [featuresMap |-> fmap, thrown |-> None]
    ELSE IF ~r.ok THEN [featuresMap |-> fmap, thrown |-> None]
    ELSE IF r.json = None THEN [featuresMap |-> fmap, thrown |-> Some("invalid json")]
    ELSE IF r.json[1].features # None
         THEN [featuresMap |->
                   MapSet(fmap, track.id, AudioFeaturesOf(track.id, r.json[1].features[1])),
               thrown |-> None]
         ELSE [featuresMap |-> fmap, thrown |-> None]

\* one iteration of the loop of getSoundStatAudioFeatures, its fetch settled with r
LoopBody(fmap, track, r) ==
    IF r.settled = "rejected" THEN [featuresMap |-> fmap, thrown |-> None]
    ELSE IF ~r.ok THEN [featuresMap |-> fmap, thrown |-> None]
    ELSE IF r.json = None THEN [featuresMap |-> fmap, thrown |-> None]
    ELSE IF r.json[1].features # None
         THEN [featuresMap |->
                   MapSet(fmap, track.id, AudioFeaturesOf(track.id, r.json[1].features[1])),
               thrown |-> None]
         ELSE [featuresMap |-> fmap, thrown |-> None]

----------------------------------------------------------------------------
(* The process *)

\* the outstanding fetch (if any: settled = <<r>>) settles, and the code runs
\* on to issue the fetches of next (none or one) before it suspends again
Await(settled, next) ==
    /\ responses' = responses \o settled
    /\ requests' = requests \o next
    /\ inflight' = (inflight \ {Len(responses) + k : k \in 1..Len(settled)})
                       \cup {Len(requests) + k : k \in 1..Len(next)}

\* the process ends because nothing is left to run, or by process.exit(code)
Exit(code) ==
    /\ pc' = "exited"
    /\ exitCode' = Some(code)

\* a rejection reaches main().catch(console.error): it is logged and the
\* process ends normally, with the default exit status
Rejects(error) ==
    /\ escaped' = error
    /\ Exit(0)

Valid == Some(<<"s", "3", "c">>)

EnvValues == {None, Some(<<>>), Some(YOUR_ \o <<"I", "D">>), Valid}

EnvNames == {"SPOTIFY_CLIENT_ID", "SPOTIFY_CLIENT_SECRET",
             "SPOTIFY_REFRESH_TOKEN", "SOUNDSTAT_API_KEY"}

\* the condition of main's credential check
MissingCredentials(e) ==
    LET clientId == e["SPOTIFY_CLIENT_ID"]
        clientSecret == e["SPOTIFY_CLIENT_SECRET"]
        refreshToken == e["SPOTIFY_REFRESH_TOKEN"]
    IN IF Falsy(clientId) THEN TRUE
       ELSE IF Falsy(clientSecret) THEN TRUE
       ELSE IF Falsy(refreshToken) THEN TRUE
       ELSE IF Includes(clientId[1], YOUR_) THEN TRUE
       ELSE IF Includes(clientSecret[1], YOUR_) THEN TRUE
       ELSE Includes(refreshToken[1], YOUR_)

\* state of a fresh process whose main() has not run yet
Fresh ==
    /\ accessToken = None
    /\ requests = <<>>
    /\ responses = <<>>
    /\ inflight = {}
    /\ tracks = <<>>
    /\ uniqueTracks = <<>>
    /\ i = 1
    /\ featuresMap = EmptyMap
    /\ mood = None
    /\ element = None
    /\ file = None
    /\ exitCode = None
    /\ escaped = None

Init ==
    /\ env \in [EnvNames -> EnvValues]
    /\ pc = "main"
    /\ Fresh

\* main: the credential check fails; process.exit(1)
MainMissingCredentials ==
    /\ pc = "main"
    /\ MissingCredentials(env)
    /\ Exit(1)
    /\ UNCHANGED <<env, accessToken, requests, responses, inflight, tracks,
                   uniqueTracks, i, featuresMap, mood, element, file, escaped>>

\* main -> analyzeDailyMood -> getAccessToken: the token request is issued
MainAnalyze ==
    /\ pc = "main"
    /\ ~MissingCredentials(env)
    /\ Await(<<>>, <<Request("token", 0)>>)
    /\ pc' = "getAccessToken"
    /\ UNCHANGED <<env, accessToken, tracks, uniqueTracks, i, featuresMap,
                   mood, element, file, exitCode, escaped>>

\* getAccessToken throws: the error leaves analyzeDailyMood and main
TokenFails ==
    /\ pc = "getAccessToken"
    /\ \E r \in TokenResponses :
          /\ getAccessToken(r).thrown # None
          /\ Await(<<r>>, <<>>)
          /\ Rejects(getAccessToken(r).thrown)
    /\ UNCHANGED <<env, accessToken, tracks, uniqueTracks, i, featuresMap,
                   mood, element, file>>

\* getAccessToken returns; getRecentlyPlayed throws when the token is unset,
\* otherwise the recently-played request is issued
TokenGranted ==
    /\ pc = "getAccessToken"
    /\ \E r \in TokenResponses :
          /\ getAccessToken(r).thrown = None
          /\ accessToken' = getAccessToken(r).accessToken
          /\ IF getAccessToken(r).accessToken = None
             THEN /\ Await(<<r>>, <<>>)
                  /\ Rejects(Some("Access token not set"))
             ELSE /\ Await(<<r>>, <<Request("recently-played", 0)>>)
                  /\ pc' = "getRecentlyPlayed"
                  /\ UNCHANGED <<exitCode, escaped>>
    /\ UNCHANGED <<env, tracks, uniqueTracks, i, featuresMap, mood, element, file>>

\* getRecentlyPlayed throws or yields no tracks: the error leaves main, or
\* analyzeDailyMood returns null and main ends
PlayedNothing ==
    /\ pc = "getRecentlyPlayed"
    /\ \E r \in PlayedResponses :
          LET res == getRecentlyPlayed(r)
          IN /\ res.thrown # None \/ Len(res.tracks) = 0
             /\ Await(<<r>>, <<>>)
             /\ IF res.thrown # None
                THEN /\ Rejects(res.thrown)
                     /\ UNCHANGED tracks
                ELSE /\ tracks' = res.tracks
                     /\ Exit(0)
                     /\ UNCHANGED escaped
    /\ UNCHANGED <<env, accessToken, uniqueTracks, i, featuresMap, mood,
                   element, file>>

\* getRecentlyPlayed yields tracks: getSoundStatAudioFeatures starts its loop
PlayedTracks ==
    /\ pc = "getRecentlyPlayed"
    /\ \E r \in PlayedResponses :
          LET res == getRecentlyPlayed(r)
          IN /\ res.thrown = None
             /\ Len(res.tracks) # 0
             /\ tracks' = res.tracks
             /\ uniqueTracks' = UniqueTracks(res.tracks)
             /\ Await(<<r>>, <<Request("track", UniqueTracks(res.tracks)[1].id)>>)
    /\ featuresMap' = EmptyMap
    /\ i' = 1
    /\ pc' = "getSoundStatAudioFeatures"
    /\ UNCHANGED <<env, accessToken, mood, element, file, exitCode, escaped>>

\* analyzeDailyMood after the enrichment: steps 4 and 5, then main up to the
\* await of the file write
Aggregate(fmap) ==
    LET m == calculateAggregateMood(tracks, fmap)
    IN /\ mood' = m
       /\ IF m = None
          THEN /\ Exit(0)
               /\ UNCHANGED element
          ELSE /\ element' = Some(mapToElement(m[1], tracks))
               /\ pc' = "writeFile"
               /\ UNCHANGED exitCode

\* the fetch of uniqueTracks[i] settles and the loop goes on to the next track
AnalysisNext ==
    /\ pc = "getSoundStatAudioFeatures"
    /\ i < Len(uniqueTracks)
    /\ \E r \in AnalysisResponses :
          LET res == LoopBody(featuresMap, uniqueTracks[i], r)
          IN /\ featuresMap' = res.featuresMap
             /\ IF res.thrown # None
                THEN /\ Await(<<r>>, <<>>)
                     /\ Rejects(res.thrown)
                ELSE /\ Await(<<r>>, <<Request("track", uniqueTracks[i + 1].id)>>)
                     /\ UNCHANGED <<pc, exitCode, escaped>>
    /\ i' = i + 1
    /\ UNCHANGED <<env, accessToken, tracks, uniqueTracks, mood, element, file>>

\* the fetch of the last unique track settles: the loop ends
AnalysisLast ==
    /\ pc = "getSoundStatAudioFeatures"
    /\ i = Len(uniqueTracks)
    /\ \E r \in AnalysisResponses :
          LET res == LoopBody(featuresMap, uniqueTracks[i], r)
          IN /\ featuresMap' = res.featuresMap
             /\ Await(<<r>>, <<>>)
             /\ IF res.thrown # None
                THEN /\ Rejects(res.thrown)
                     /\ UNCHANGED <<mood, element>>
                ELSE /\ Aggregate(res.featuresMap)
                     /\ UNCHANGED escaped
    /\ i' = i + 1
    /\ UNCHANGED <<env, accessToken, tracks, uniqueTracks, file>>

\* main: fs.writeFile("current_mood.json", ...) succeeds
WriteFile ==
    /\ pc = "writeFile"
    /\ file' = element
    /\ Exit(0)
    /\ UNCHANGED <<env, accessToken, requests, responses, inflight, tracks,
                   uniqueTracks, i, featuresMap, mood, element, escaped>>

\* main: the import of fs/promises or the write fails; the rejection leaves main
WriteFileFails ==
    /\ pc = "writeFile"
    /\ Rejects(Some("writeFile failed"))
    /\ UNCHANGED <<env, accessToken, requests, responses, inflight, tracks,
                   uniqueTracks, i, featuresMap, mood, element, file>>

Next ==
    \/ MainMissingCredentials
    \/ MainAnalyze
    \/ TokenFails
    \/ TokenGranted
    \/ PlayedNothing
    \/ PlayedTracks
    \/ AnalysisNext
    \/ AnalysisLast
    \/ WriteFile
    \/ WriteFileFails

Spec == Init /\ [][Next]_vars

----------------------------------------------------------------------------
(* calculateAggregateMood called on arbitrary arguments, followed by the   *)
(* rest of analyzeDailyMood and main                                       *)

AggregateFeatures ==
    {Features(Some(80), Some(80), Some(20), Some(50), Some(120)),
     Features(Some(20), Some(30), Some(20), Some(50), Some(120)),
     Features(None, Some(30), Some(20), Some(50), Some(120))}

\* 0 is an identifier no track carries
FeatureEntries ==
    {<<id, AudioFeaturesOf(id, f)>> : id \in 0..NumTrackIds, f \in AggregateFeatures}

FeatureMaps ==
    {MapFromEntries(es) : es \in UNION {[1..n -> FeatureEntries] : n \in 0..NumTrackIds}}

AllValid == [n \in EnvNames |-> Valid]

InitAggregate ==
    /\ env = AllValid
    /\ pc = "calculateAggregateMood"
    /\ accessToken = None
    /\ requests = <<>>
    /\ responses = <<>>
    /\ inflight = {}
    /\ tracks \in {ToTracks(Items(ids)) : ids \in IdSeqs}
    /\ uniqueTracks = <<>>
    /\ i = 1
    /\ featuresMap \in FeatureMaps
    /\ mood = None
    /\ element = None
    /\ file = None
    /\ exitCode = None
    /\ escaped = None

CallAggregate ==
    /\ pc = "calculateAggregateMood"
    /\ Aggregate(featuresMap)
    /\ UNCHANGED <<env, accessToken, requests, responses, inflight, tracks,
                   uniqueTracks, i, featuresMap, file, escaped>>

NextAggregate ==
    \/ CallAggregate
    \/ WriteFile
    \/ WriteFileFails

SpecAggregate == InitAggregate /\ [][NextAggregate]_vars

----------------------------------------------------------------------------
(* mapToElement called on arbitrary summaries, followed by the rest of main *)

Grid == {0, 10, 30, 40, 45, 50, 51, 60, 61, 65, 70, 71, 75, 100}

GridNumbers == {Rat(n, 100) : n \in Grid} \cup {NaN}

MoodSummaries ==
    [avgValence : GridNumbers, avgEnergy : GridNumbers,
     avgAcousticness : GridNumbers, trackCount : {MaxTracks}, analyzedCount : {1}]

InitClassify ==
    /\ env = AllValid
    /\ pc = "mapToElement"
    /\ accessToken = None
    /\ requests = <<>>
    /\ responses = <<>>
    /\ inflight = {}
    /\ tracks = ToTracks(Items([k \in 1..MaxTracks |-> 1]))
    /\ uniqueTracks = <<>>
    /\ i = 1
    /\ featuresMap = EmptyMap
    /\ mood \in {Some(m) : m \in MoodSummaries}
    /\ element = None
    /\ file = None
    /\ exitCode = None
    /\ escaped = None

CallMapToElement ==
    /\ pc = "mapToElement"
    /\ element' = Some(mapToElement(mood[1], tracks))
    /\ pc' = "writeFile"
    /\ UNCHANGED <<env, accessToken, requests, responses, inflight, tracks,
                   uniqueTracks, i, featuresMap, mood, file, exitCode, escaped>>

NextClassify ==
    \/ CallMapToElement
    \/ WriteFile
    \/ WriteFileFails

SpecClassify == InitClassify /\ [][NextClassify]_vars

----------------------------------------------------------------------------
(* Properties of the classifier, checked under SpecClassify *)

\* the four conditional rules as the documentation states them
RuleFire(m) == GT(m.avgEnergy, 70) /\ GT(m.avgValence, 60)
RuleWater(m) == LT(m.avgEnergy, 50) /\ LT(m.avgValence, 60)
RuleAir(m) == GT(m.avgValence, 60) /\ GE(m.avgEnergy, 40) /\ LE(m.avgEnergy, 70)
RuleAether(m) == GT(m.avgAcousticness, 50) /\ LT(m.avgEnergy, 50)

Rules(m) ==
    << <<"FIRE", RuleFire(m)>>, <<"WATER", RuleWater(m)>>,
       <<"AIR", RuleAir(m)>>, <<"AETHER", RuleAether(m)>> >>

NoRule(m) == \A k \in 1..Len(Rules(m)) : ~Rules(m)[k][2]

\* label of the first matching rule in the fixed order, EARTH when none matches
FirstMatch(m) ==
    IF NoRule(m) THEN "EARTH"
    ELSE LET k == CHOOSE k \in 1..Len(Rules(m)) :
                      /\ Rules(m)[k][2]
                      /\ \A j \in 1..(k - 1) : ~Rules(m)[j][2]
         IN Rules(m)[k][1]

DesignNoteExample(m) ==
    /\ m.avgValence = Rat(65, 100)
    /\ m.avgEnergy = Rat(75, 100)
    /\ m.avgAcousticness = Rat(10, 100)

\* C10 as stated: the summary (0.65, 0.75, 0.1) falls through the four
\* conditional rules and is classified EARTH.
C10_FallsThroughToEarth ==
    (element # None /\ DesignNoteExample(mood[1])) => element[1].name = "EARTH"

\* C10 amended: the summary (0.65, 0.75, 0.1) matches the FIRE rule
\* (0.75 > 0.7 and 0.65 > 0.6) and is classified FIRE.
C10_ClassifiedFire ==
    (element # None /\ DesignNoteExample(mood[1])) =>
        /\ element[1].name = "FIRE"
        /\ element[1].description = "Euphoric & Intense"

\* the summary (0.65, 0.75, 0.1) has been classified
C10_Witness ==
    /\ element # None
    /\ DesignNoteExample(mood[1])
    /\ element[1].mood = mood[1]

----------------------------------------------------------------------------
(* Properties of the pipeline, checked under Spec *)

\* the requests sent to one endpoint, in the order they were issued
RequestsTo(endpoint) == SelectSeq(requests, LAMBDA q : q.endpoint = endpoint)

\* the track identifiers the audio-analysis requests were issued for, in order
AnalysisIds == [k \in 1..Len(RequestsTo("track")) |-> RequestsTo("track")[k].id]

\* the settled requests to one endpoint
SettledTo(endpoint) == {n \in 1..Len(responses) : requests[n].endpoint = endpoint}

TrackIdsPlayed == [k \in 1..Len(tracks) |-> tracks[k].id]

HasEntry(id) == \E j \in 1..Len(featuresMap.keys) : featuresMap.keys[j] = id

EntryOf(id) == featuresMap.val[CHOOSE j \in 1..Len(featuresMap.keys) : featuresMap.keys[j] = id]

\* the enrichment stage has run to its end
Enriched == tracks # <<>> /\ pc \in {"writeFile", "exited"}

\* C2 as stated: after a non-success token response no other request is
\* issued, no file is written and the process ends with a non-zero status.
C2_TokenFailureExitsNonZero ==
    \A n \in SettledTo("token") :
        (responses[n].settled = "resolved" /\ ~responses[n].ok) =>
            /\ pc = "exited"
            /\ RequestsTo("recently-played") = <<>>
            /\ RequestsTo("track") = <<>>
            /\ file = None
            /\ exitCode # None
            /\ exitCode[1] # 0

\* the recently-played fetch failed, or returned an empty list
PlayedFailedOrEmpty(r) ==
    IF r.settled = "rejected" THEN TRUE
    ELSE IF ~r.ok THEN TRUE
    ELSE IF r.json = None THEN TRUE
    ELSE IF r.json[1].items = None THEN TRUE
    ELSE r.json[1].items[1] = <<>>

\* C3: when the recently-played request fails or returns an empty list the
\* run ends with no audio-analysis request, no output file, exit status 0, and
\* no error leaves the pipeline.
C3_DegradeToEmpty ==
    \A n \in SettledTo("recently-played") :
        PlayedFailedOrEmpty(responses[n]) =>
            /\ pc = "exited"
            /\ RequestsTo("track") = <<>>
            /\ file = None
            /\ exitCode = Some(0)
            /\ escaped = None

\* the recently-played request was answered with a non-success status
C3_Witness ==
    /\ pc = "exited"
    /\ \E n \in SettledTo("recently-played") :
          responses[n].settled = "resolved" /\ ~responses[n].ok

\* the analysis fetch failed: transport error, non-success status, bad body
AnalysisFailed(r) == r.settled = "rejected" \/ ~r.ok \/ r.json = None

\* C4: a track whose analysis request failed has no entry; the request for
\* every remaining unique track is still issued; no error leaves the
\* enrichment stage; the entry stored for a track stays as it was stored.
C4_SkipAndContinue ==
    /\ \A n \in SettledTo("track") :
          /\ AnalysisFailed(responses[n]) => ~HasEntry(requests[n].id)
          /\ (~AnalysisFailed(responses[n]) /\ responses[n].json[1].features # None) =>
                /\ HasEntry(requests[n].id)
                /\ EntryOf(requests[n].id) =
                       AudioFeaturesOf(requests[n].id, responses[n].json[1].features[1])
    /\ tracks # <<>> =>
          Len(RequestsTo("track")) =
              IF Cardinality(SettledTo("track")) < Len(Dedup(TrackIdsPlayed))
              THEN Cardinality(SettledTo("track")) + 1
              ELSE Len(Dedup(TrackIdsPlayed))
    /\ (tracks # <<>> /\ escaped # None) =>
          (pc = "exited" /\ element # None /\ escaped = Some("writeFile failed"))

\* the first of two analysis requests failed with a non-success status, the
\* second was issued all the same and its features were stored
C4_Witness ==
    /\ Enriched
    /\ \E n, k \in SettledTo("track") :
          /\ n < k
          /\ responses[n].settled = "resolved" /\ ~responses[n].ok
          /\ ~AnalysisFailed(responses[k])
          /\ ~HasEntry(requests[n].id)
          /\ HasEntry(requests[k].id)

\* C6 as stated: when any of the four configured values is missing or a
\* placeholder, no request is ever issued and the process exits non-zero.
BadValue(v) == IF Falsy(v) THEN TRUE ELSE Includes(v[1], YOUR_)

C6_BadConfigurationExitsBeforeNetwork ==
    (\E name \in EnvNames : BadValue(env[name])) =>
        /\ requests = <<>>
        /\ pc # "main" => (pc = "exited" /\ exitCode # None /\ exitCode[1] # 0)

\* C7: one audio-analysis request per distinct track identifier, in order of
\* first occurrence, each issued only after every earlier request has settled.
C7_OneRequestPerTrackInSequence ==
    /\ Len(AnalysisIds) <= Len(Dedup(TrackIdsPlayed))
    /\ AnalysisIds = SubSeq(Dedup(TrackIdsPlayed), 1, Len(AnalysisIds))
    /\ Enriched => AnalysisIds = Dedup(TrackIdsPlayed)
    /\ inflight \subseteq {Len(requests)}
    /\ Cardinality(inflight) <= 1

\* the enrichment of a history that repeats a track between two others is done
C7_Witness ==
    /\ Enriched
    /\ Len(Dedup(TrackIdsPlayed)) >= 2
    /\ Len(tracks) > Len(Dedup(TrackIdsPlayed))
    /\ \E n, k \in SettledTo("track") : n < k

\* a mean of the summary equals the mean of a list of values (NaN when one of
\* them is missing)
MeanIs(avg, vals) ==
    IF \E k \in 1..Len(vals) : vals[k] = None THEN avg.nan
    ELSE /\ ~avg.nan
         /\ avg.num * 100 * Len(vals) = SumSeq(vals) * avg.den

SummaryOver(ids) ==
    LET matched == SelectSeq(ids, HasEntry)
    IN /\ mood[1].analyzedCount = Len(matched)
       /\ MeanIs(mood[1].avgValence, [k \in 1..Len(matched) |-> EntryOf(matched[k]).valence])
       /\ MeanIs(mood[1].avgEnergy, [k \in 1..Len(matched) |-> EntryOf(matched[k]).energy])
       /\ MeanIs(mood[1].avgAcousticness,
                 [k \in 1..Len(matched) |-> EntryOf(matched[k]).acousticness])

\* C8 as stated: the means and analyzedCount are taken over the distinct
\* matched track identifiers, a repeated identifier being collected once.
C8_SummaryOverDistinctTracks ==
    mood # None => SummaryOver(Dedup(TrackIdsPlayed))

\* C8 amended: the means and analyzedCount are taken over the plays: every
\* element of the track sequence whose identifier has an entry is collected,
\* a repeated identifier once per occurrence.
C8_SummaryOverPlays ==
    mood # None => SummaryOver(TrackIdsPlayed)

\* a summary was computed for a history that repeats a matched track
C8_Witness ==
    /\ mood # None
    /\ \E k, l \in 1..Len(tracks) :
          k < l /\ tracks[k].id = tracks[l].id /\ HasEntry(tracks[k].id)
    /\ \E k \in 1..Len(tracks) : ~HasEntry(tracks[k].id)

\* C9 as stated: every entry of the features mapping carries valence, energy,
\* acousticness, danceability and tempo.
C9_OnlyWellFormedEntries ==
    \A j \in 1..Len(featuresMap.val) :
        /\ featuresMap.val[j].valence # None
        /\ featuresMap.val[j].energy # None
        /\ featuresMap.val[j].acousticness # None
        /\ featuresMap.val[j].danceability # None
        /\ featuresMap.val[j].tempo # None

----------------------------------------------------------------------------
(* Properties of the aggregator, checked under SpecAggregate *)

\* C5: calculateAggregateMood returns null exactly when no track of the
\* sequence has an entry; a summary has 1 <= analyzedCount <= trackCount and
\* trackCount = length of the sequence; the file holds only such a summary.
C5_AbsentIffNoMatch ==
    /\ pc # "calculateAggregateMood" =>
          /\ mood = None <=> ~\E k \in 1..Len(tracks) : HasEntry(tracks[k].id)
          /\ mood # None =>
                /\ 1 <= mood[1].analyzedCount
                /\ mood[1].analyzedCount <= mood[1].trackCount
                /\ mood[1].trackCount = Len(tracks)
    /\ file # None =>
          /\ mood # None
          /\ file[1].mood = mood[1]
          /\ file[1].mood.analyzedCount >= 1

\* null was returned for a non-empty sequence and a non-empty mapping
C5_Witness ==
    /\ pc # "calculateAggregateMood"
    /\ mood = None
    /\ tracks # <<>>
    /\ featuresMap.keys # <<>>

====
